---- MODULE Spec2Model ----
(***************************************************************************)
(* Column selection and schema construction of crates/freeze/src/types/    *)
(* schemas.rs: Datatype::table_schema and compute_used_columns.            *)
(*                                                                         *)
(* IndexSet<String> and IndexMap<String, ColumnType> are modelled as       *)
(* duplicate-free sequences in insertion order; Option<Vec<String>> as a   *)
(* record [some, v].  A call of table_schema is one action: Init draws the *)
(* arguments, TableSchema applies the function and stores the Result.      *)
(***************************************************************************)
EXTENDS Naturals, Sequences, FiniteSets

VARIABLES datatype, binary_column_format, include_columns, exclude_columns,
          columns, sort, pc, result

vars == <<datatype, binary_column_format, include_columns, exclude_columns,
          columns, sort, pc, result>>

----------------------------------------------------------------------------
(* Bounds of the model *)

\* Sum of the lengths of the include, exclude and explicit lists of one call.
MaxTotal == 3

\* The names the three argument lists are drawn from: registry columns, the
\* "all" marker and a name no registry knows.
InputNames == {"number", "hash", "chain_id", "receipts_root", "all", "foo_bar"}

----------------------------------------------------------------------------
(* Option<Vec<String>> *)

None == [some |-> FALSE, v |-> <<>>]

Some(s) == [some |-> TRUE, v |-> s]

Range(s) == {s[i] : i \in 1..Len(s)}

IsDupFree(s) == \A i, j \in 1..Len(s) : s[i] = s[j] => i = j

----------------------------------------------------------------------------
(* ColumnType and ColumnEncoding *)

ColumnType == {"UInt32", "UInt64", "Int32", "Int64", "Float64", "Decimal128",
               "String", "Binary", "Hex"}

ColumnEncoding == {"Binary", "Hex"}

----------------------------------------------------------------------------
(* The column registry: Dataset::column_types and Dataset::default_columns. *)
(* Each datatype is a small registry: an ordered name -> type mapping and   *)
(* an ordered default list.  "Blocks" is the projection of the block        *)
(* registry onto four of its columns.                                       *)

Col(n, t) == [name |-> n, ctype |-> t]

Datatypes == {"Blocks", "Transactions", "Logs"}

\* A registry whose default list names a column its type mapping lacks.
InconsistentDatatypes == {"Inconsistent", "InconsistentDup"}

column_types(d) ==
    CASE d = "Blocks" ->
           <<Col("hash", "Binary"), Col("receipts_root", "Binary"),
             Col("number", "UInt32"), Col("chain_id", "UInt64")>>
      [] d = "Transactions" ->
           <<Col("number", "UInt32"), Col("hash", "Binary"),
             Col("chain_id", "UInt64"), Col("receipts_root", "String")>>
      [] d = "Logs" ->
           <<Col("chain_id", "UInt64"), Col("number", "UInt32"),
             Col("hash", "Binary")>>
      [] d = "Inconsistent" ->
           <<Col("number", "UInt32"), Col("hash", "Binary"),
             Col("chain_id", "UInt64")>>
      [] d = "InconsistentDup" ->
           <<Col("hash", "Binary"), Col("chain_id", "UInt64")>>

default_columns(d) ==
    CASE d = "Blocks" -> <<"number", "hash">>
      [] d = "Transactions" -> <<"number", "hash">>
      [] d = "Logs" -> <<"hash">>
      [] d = "Inconsistent" -> <<"number", "receipts_root">>
      [] d = "InconsistentDup" -> <<"hash", "foo_bar", "hash">>

\* column_types.keys(), in the mapping's iteration order
keys(ct) == [i \in 1..Len(ct) |-> ct[i].name]

\* column_types.get(name): the index of the entry, 0 when absent
get(ct, name) ==
    IF \E i \in 1..Len(ct) : ct[i].name = name
    THEN CHOOSE i \in 1..Len(ct) : ct[i].name = name
    ELSE 0

----------------------------------------------------------------------------
(* IndexSet<String> *)

RECURSIVE from_iter_last(_)
\* a collect that keeps a repeated name at its last position
from_iter_last(s) ==
    IF s = <<>> THEN <<>>
    ELSE LET r == from_iter_last(Tail(s))
         IN IF Head(s) \in Range(r) THEN r ELSE <<Head(s)>> \o r

RECURSIVE from_iter(_)
\* IndexSet::from_iter / collect: insert in order, a repeated name is kept
\* at its first position.
from_iter(s) ==
    IF s = <<>> THEN <<>>
    ELSE LET r == from_iter(SubSeq(s, 1, Len(s) - 1))
         IN IF s[Len(s)] \in Range(r) THEN r ELSE Append(r, s[Len(s)])

\* an extend that puts the new items in front of the present ones
extend_front(set, s) == from_iter(s \o set)

\* an extend that replaces the present items by the new ones
extend_replace(set, s) == from_iter(s)

\* IndexSet::extend: insert each item in order
extend(set, s) == from_iter(set \o s)

\* an intersection that iterates other instead of self
intersection_of_other(self, other) == SelectSeq(other, LAMBDA x : x \in Range(self))

\* an intersection that filters nothing
intersection_keep_all(self, other) == self

\* IndexSet::intersection: the items of self, in self's order, that are in other
intersection(self, other) == SelectSeq(self, LAMBDA x : x \in Range(other))

\* IndexSet::difference: the items of self, in self's order, not in other
difference(self, other) == SelectSeq(self, LAMBDA x : x \notin Range(other))

\* a marker test against "*" instead of "all"
IsAllMarker_star(list) == (Len(list) = 1) /\ ("*" \in Range(list))

\* (list.len() == 1) & list.contains("all")
IsAllMarker(list) == (Len(list) = 1) /\ ("all" \in Range(list))

----------------------------------------------------------------------------
(* compute_used_columns *)

\* a selection that removes the excluded names before it adds the included ones
compute_used_columns_exclude_first(all_columns, defaults, include, exclude, explicit) ==
    IF explicit.some
    THEN IF IsAllMarker(explicit.v)
         THEN all_columns
         ELSE from_iter(explicit.v)
    ELSE LET result_set0 == from_iter(defaults)
         IN IF include.some /\ IsAllMarker(include.v)
            THEN all_columns
            ELSE LET result_set1 ==
                         IF exclude.some
                         THEN from_iter(difference(result_set0,
                                                   from_iter(exclude.v)))
                         ELSE result_set0
                     result_set2 ==
                         IF include.some
                         THEN from_iter(intersection(extend(result_set1, include.v),
                                                     all_columns))
                         ELSE result_set1
                 IN result_set2

\* a selection that takes the defaults in the registry's iteration order
compute_used_columns_registry_order(all_columns, defaults, include, exclude, explicit) ==
    IF explicit.some
    THEN IF IsAllMarker(explicit.v)
         THEN all_columns
         ELSE from_iter(explicit.v)
    ELSE LET result_set0 == from_iter(intersection(all_columns, defaults))
         IN IF include.some /\ IsAllMarker(include.v)
            THEN all_columns
            ELSE LET result_set1 ==
                         IF include.some
                         THEN from_iter(intersection(extend(result_set0, include.v),
                                                     all_columns))
                         ELSE result_set0
                     result_set2 ==
                         IF exclude.some
                         THEN from_iter(difference(result_set1,
                                                   from_iter(exclude.v)))
                         ELSE result_set1
                 IN result_set2

compute_used_columns(all_columns, defaults, include, exclude, explicit) ==
    IF explicit.some
    THEN IF IsAllMarker(explicit.v)
         THEN all_columns
         ELSE from_iter(explicit.v)
    ELSE LET result_set0 == from_iter(defaults)
         IN IF include.some /\ IsAllMarker(include.v)
            THEN all_columns
            ELSE LET result_set1 ==
                         IF include.some
                         THEN from_iter(intersection(extend(result_set0, include.v),
                                                     all_columns))
                         ELSE result_set0
                     result_set2 ==
                         IF exclude.some
                         THEN from_iter(difference(result_set1,
                                                   from_iter(exclude.v)))
                         ELSE result_set1
                 IN result_set2

----------------------------------------------------------------------------
(* Datatype::table_schema *)

\* a substitution that forgets to test the native type
encoded_type_any(format, ctype) ==
    IF format = "Hex" THEN "Hex" ELSE ctype

\* Hex preference replaces the Binary type
encoded_type(format, ctype) ==
    IF (format = "Hex") /\ (ctype = "Binary") THEN "Hex" ELSE ctype

\* IndexMap::insert: a new key is appended, a present key keeps its position
\* and takes the new value.
insert(map, n, t) ==
    IF \E i \in 1..Len(map) : map[i].name = n
    THEN [i \in 1..Len(map) |-> IF map[i].name = n THEN Col(n, t) ELSE map[i]]
    ELSE Append(map, Col(n, t))

\* Ok(Table {datatype, sort_columns, columns})
Ok(d, srt, cols) ==
    [tag |-> "Ok", columns |-> cols, datatype |-> d, sort_columns |-> srt]

\* Err(SchemaError): no Table
Err(e) ==
    [tag |-> e, columns |-> <<>>, datatype |-> "none", sort_columns |-> None]

\* no call has returned yet
NoResult ==
    [tag |-> "NoResult", columns |-> <<>>, datatype |-> "none",
     sort_columns |-> None]

RECURSIVE build_columns_skip(_, _, _, _)
\* a loop that skips a name without a type instead of failing
build_columns_skip(ct, format, used, acc) ==
    IF used = <<>> THEN [ok |-> TRUE, map |-> acc]
    ELSE LET i == get(ct, Head(used))
         IN IF i = 0
            THEN build_columns_skip(ct, format, Tail(used), acc)
            ELSE build_columns_skip(ct, format, Tail(used),
                                    insert(acc, Head(used),
                                           encoded_type(format, ct[i].ctype)))

RECURSIVE build_columns(_, _, _, _)
\* the loop over used_columns: the first name without a type ends the call
\* with InvalidColumn
build_columns(ct, format, used, acc) ==
    IF used = <<>> THEN [ok |-> TRUE, map |-> acc]
    ELSE LET i == get(ct, Head(used))
         IN IF i = 0
            THEN [ok |-> FALSE, map |-> <<>>]
            ELSE build_columns(ct, format, Tail(used),
                               insert(acc, Head(used),
                                      encoded_type(format, ct[i].ctype)))

table_schema(d, format, include, exclude, explicit, srt) ==
    LET ct == column_types(d)
        all_columns == from_iter(keys(ct))
        used_columns == compute_used_columns(all_columns, default_columns(d),
                                             include, exclude, explicit)
        built == build_columns(ct, format, used_columns, <<>>)
    IN IF built.ok THEN Ok(d, srt, built.map) ELSE Err("InvalidColumn")

----------------------------------------------------------------------------
(* Table *)

\* Table::columns
TableColumns(t) == [i \in 1..Len(t.columns) |-> t.columns[i].name]

\* Table::has_column
has_column(t, n) == \E i \in 1..Len(t.columns) : t.columns[i].name = n

\* Table::column_type, "none" when the column is absent
column_type(t, n) ==
    IF has_column(t, n)
    THEN (CHOOSE c \in Range(t.columns) : c.name = n).ctype
    ELSE "none"

----------------------------------------------------------------------------
(* The arguments of a call *)

SeqsOfLen(k) == [1..k -> InputNames]

\* the lists of length k; the absent list counts as length 0
OptOfLen(k) == {Some(s) : s \in SeqsOfLen(k)} \cup (IF k = 0 THEN {None} ELSE {})

Arguments ==
    UNION { UNION { UNION { OptOfLen(a) \X OptOfLen(b) \X OptOfLen(c)
                            : c \in 0..(MaxTotal - a - b) }
                    : b \in 0..(MaxTotal - a) }
            : a \in 0..MaxTotal }

\* the sort argument is stored unchecked: absent, or naming one column
SortArguments == {None, Some(<<"number">>)}

InitWith(dts) ==
    /\ datatype \in dts
    /\ binary_column_format \in ColumnEncoding
    /\ \E args \in Arguments :
          /\ include_columns = args[1]
          /\ exclude_columns = args[2]
          /\ columns = args[3]
    /\ sort \in SortArguments
    /\ pc = "call"
    /\ result = NoResult

Init == InitWith(Datatypes)

InitAnyRegistry == InitWith(Datatypes \cup InconsistentDatatypes)

TableSchema ==
    /\ pc = "call"
    /\ result' = table_schema(datatype, binary_column_format, include_columns,
                              exclude_columns, columns, sort)
    /\ pc' = "done"
    /\ UNCHANGED <<datatype, binary_column_format, include_columns,
                   exclude_columns, columns, sort>>

Next == TableSchema

Spec == Init /\ [][Next]_vars

SpecAnyRegistry == InitAnyRegistry /\ [][Next]_vars

TypeOK ==
    /\ datatype \in Datatypes \cup InconsistentDatatypes
    /\ binary_column_format \in ColumnEncoding
    /\ pc \in {"call", "done"}
    /\ result.tag \in {"NoResult", "Ok", "InvalidColumn"}
    /\ \A i \in 1..Len(result.columns) : result.columns[i].ctype \in ColumnType

----------------------------------------------------------------------------
(* What the claims speak about *)

\* table_schema has returned
Called == pc = "done"

\* the call returned a Table
IsOk == result.tag = "Ok"

\* columns() of the returned Table
Cols == TableColumns(result)

\* the registry's column set in its canonical (iteration) order
Registry == keys(column_types(datatype))

\* the registry's default list
Defaults == default_columns(datatype)

\* the native registry type of a column name
NativeType(n) == (CHOOSE c \in Range(column_types(datatype)) : c.name = n).ctype

\* the first position of x in s, 0 when x is not in s
Pos(s, x) ==
    IF x \in Range(s)
    THEN CHOOSE i \in 1..Len(s) : s[i] = x /\ \A j \in 1..(i - 1) : s[j] # x
    ELSE 0

\* the names of r are in s and stand in r in the order of their first
\* positions in s
OrderedBy(r, s) ==
    /\ Range(r) \subseteq Range(s)
    /\ \A i, j \in 1..Len(r) : i < j => Pos(s, r[i]) < Pos(s, r[j])

Reverse(s) == [i \in 1..Len(s) |-> s[Len(s) + 1 - i]]

AllMarker == Some(<<"all">>)

\* the outcome of the same call with other include / exclude arguments
Outcome(include, exclude) ==
    table_schema(datatype, binary_column_format, include, exclude, columns, sort)

----------------------------------------------------------------------------
(* C1 *)

\* C1 as stated: whenever explicit = ["all"] or include = ["all"], the call
\* returns a Table whose columns() is the full registry column set in
\* registry order, whatever exclude and (for include = ["all"]) explicit are.
C1_AllMarkerRegardless ==
    (Called /\ (columns = AllMarker \/ include_columns = AllMarker))
        => (IsOk /\ Cols = Registry)

\* C1 amended: explicit = ["all"], whatever include and exclude are, and
\* include = ["all"] with explicit absent, whatever exclude is, return a
\* Table whose columns() is the full registry column set in registry order.
C1_AllMarker ==
    (Called /\ (columns = AllMarker
                   \/ (~columns.some /\ include_columns = AllMarker)))
        => (IsOk /\ Cols = Registry)

\* include = ["all"] with an exclude list naming a registry column: the
\* column is still returned
C1_Witness ==
    /\ Called /\ IsOk
    /\ ~columns.some
    /\ include_columns = AllMarker
    /\ exclude_columns = Some(<<"hash", "number">>)
    /\ datatype = "Blocks"
    /\ Cols = <<"hash", "receipts_root", "number", "chain_id">>

----------------------------------------------------------------------------
(* C2 *)

\* C2 as stated: for an explicit list L that is not ["all"] and holds only
\* registry names, the call succeeds and columns() equals L exactly (same
\* names, order and count), whatever include and exclude are.
C2_ExplicitExact ==
    (Called /\ columns.some /\ columns.v # <<"all">>
            /\ Range(columns.v) \subseteq Range(Registry))
        => (IsOk /\ Cols = columns.v)

\* C2 amended: for such an L the call succeeds and columns() holds each name
\* of L once, at the place of its first occurrence in L; it equals L exactly
\* (same count) when L repeats no name.
C2_ExplicitFirstOccurrences ==
    (Called /\ columns.some /\ columns.v # <<"all">>
            /\ Range(columns.v) \subseteq Range(Registry))
        => /\ IsOk
           /\ IsDupFree(Cols)
           /\ Range(Cols) = Range(columns.v)
           /\ OrderedBy(Cols, columns.v)
           /\ IsDupFree(columns.v) => Cols = columns.v

\* an explicit list that repeats a name, given together with include =
\* ["all"]: the include list is ignored and the name is returned once
C2_Witness ==
    /\ Called /\ IsOk
    /\ datatype = "Blocks"
    /\ columns = Some(<<"hash", "hash">>)
    /\ include_columns = AllMarker
    /\ Cols = <<"hash">>

----------------------------------------------------------------------------
(* C3 *)

\* C3 as stated (explicit absent): the resulting columns stand in registry
\* order, whatever the order of the names in include and exclude.  The
\* default list is taken in registry order here, so that only the include
\* list can disturb the order.
C3_RegistryOrder ==
    (Called /\ ~columns.some /\ OrderedBy(Defaults, Registry))
        => (IsOk /\ OrderedBy(Cols, Registry))

\* C3 amended (explicit absent): with include = ["all"] the columns stand in
\* registry order; otherwise they stand in the order in which the working
\* set was filled, the default list first and then the include list in the
\* caller's order.  The order of the names in exclude has no effect.
C3_InsertionOrder ==
    (Called /\ ~columns.some)
        => /\ IsOk
           /\ IF include_columns = AllMarker
              THEN Cols = Registry
              ELSE OrderedBy(Cols, Defaults \o include_columns.v)
           /\ exclude_columns.some
                 => result = Outcome(include_columns,
                                     Some(Reverse(exclude_columns.v)))

\* two included names given against the registry order come out in the
\* caller's order
C3_Witness ==
    /\ Called /\ IsOk
    /\ datatype = "Transactions"
    /\ ~columns.some
    /\ include_columns = Some(<<"receipts_root", "chain_id">>)
    /\ Cols = <<"number", "hash", "receipts_root", "chain_id">>

----------------------------------------------------------------------------
(* C4 *)

\* C4 (explicit absent, include not ["all"]): every include name that the
\* registry knows, that is no default and that exclude does not remove is in
\* columns(); in columns() every default column stands before every other
\* column, the default columns in the order of the default list and the
\* others in the order of their first occurrence in include.
C4_IncludeAppended ==
    (Called /\ ~columns.some /\ include_columns.some
            /\ include_columns # AllMarker)
        => /\ IsOk
           /\ \A n \in Range(include_columns.v) :
                 (n \in Range(Registry) /\ n \notin Range(Defaults)
                     /\ n \notin Range(exclude_columns.v))
                    => n \in Range(Cols)
           /\ \A i, j \in 1..Len(Cols) :
                 i < j =>
                    /\ Cols[j] \in Range(Defaults) => Cols[i] \in Range(Defaults)
                    /\ (Cols[i] \in Range(Defaults) /\ Cols[j] \in Range(Defaults))
                          => Pos(Defaults, Cols[i]) < Pos(Defaults, Cols[j])
                    /\ (Cols[i] \notin Range(Defaults) /\ Cols[j] \notin Range(Defaults))
                          => /\ Pos(include_columns.v, Cols[i]) > 0
                             /\ Pos(include_columns.v, Cols[i])
                                   < Pos(include_columns.v, Cols[j])

\* the block registry with include = [chain_id, receipts_root]: both are
\* appended after the defaults, in that order
C4_Witness ==
    /\ Called /\ IsOk
    /\ datatype = "Blocks"
    /\ ~columns.some /\ ~exclude_columns.some
    /\ include_columns = Some(<<"chain_id", "receipts_root">>)
    /\ Cols = <<"number", "hash", "chain_id", "receipts_root">>

----------------------------------------------------------------------------
(* C5 *)

\* the names column selection produced for this call
Selected ==
    compute_used_columns(Registry, Defaults, include_columns, exclude_columns,
                         columns)

\* C5: the call returns InvalidColumn, and no Table, exactly when a selected
\* name is no key of the registry's type mapping; otherwise it returns a
\* Table, and every column of a returned Table is a key of the mapping.
C5_InvalidColumn ==
    Called =>
        /\ result.tag \in {"Ok", "InvalidColumn"}
        /\ result.tag = "InvalidColumn"
              <=> (\E n \in Range(Selected) : n \notin Range(Registry))
        /\ result.tag = "InvalidColumn" => result = Err("InvalidColumn")
        /\ IsOk => \A n \in Range(Cols) :
                      \E i \in 1..Len(column_types(datatype)) :
                         column_types(datatype)[i].name = n

\* an explicit list with an unknown name after a known one fails
C5_Witness ==
    /\ Called
    /\ columns = Some(<<"hash", "foo_bar">>)
    /\ result.tag = "InvalidColumn"
    /\ result.columns = <<>>

----------------------------------------------------------------------------
(* C6 *)

\* C6 (explicit absent): an include name the registry does not know is
\* dropped: the call returns a Table, columns() does not hold the name, and
\* the include names the registry knows are in columns() unless exclude
\* removes them.
C6_UnknownIncludeDropped ==
    (Called /\ ~columns.some /\ include_columns.some)
        => /\ IsOk
           /\ \A n \in Range(include_columns.v) :
                 /\ n \notin Range(Registry) => n \notin Range(Cols)
                 /\ (n \in Range(Registry) /\ n \notin Range(exclude_columns.v))
                       => n \in Range(Cols)

\* include = [chain_id, foo_bar]: chain_id is added last, foo_bar is not there
C6_Witness ==
    /\ Called /\ IsOk
    /\ datatype = "Blocks"
    /\ ~columns.some /\ ~exclude_columns.some
    /\ include_columns = Some(<<"chain_id", "foo_bar">>)
    /\ Cols = <<"number", "hash", "chain_id">>

----------------------------------------------------------------------------
(* C7 *)

\* the working set after inclusion: columns() of the same call without exclude
WorkingSet == TableColumns(Outcome(include_columns, None))

\* C7 (explicit absent, include not ["all"]): no name of exclude is in
\* columns(), also when include or the defaults hold it; the other names of
\* the working set all stay, in their relative order; an exclude list that
\* names nothing of the working set changes nothing; the call does not fail.
C7_ExcludeIsDifference ==
    (Called /\ ~columns.some /\ include_columns # AllMarker
            /\ exclude_columns.some)
        => /\ IsOk
           /\ Range(Cols) \cap Range(exclude_columns.v) = {}
           /\ Range(Cols) = Range(WorkingSet) \ Range(exclude_columns.v)
           /\ OrderedBy(Cols, WorkingSet)
           /\ IsDupFree(Cols)
           /\ Range(exclude_columns.v) \cap Range(WorkingSet) = {}
                 => result = Outcome(include_columns, None)

\* chain_id is both included and excluded, hash is an excluded default
C7_Witness ==
    /\ Called /\ IsOk
    /\ datatype = "Blocks"
    /\ ~columns.some
    /\ include_columns = Some(<<"chain_id">>)
    /\ exclude_columns = Some(<<"chain_id", "hash">>)
    /\ Cols = <<"number">>

----------------------------------------------------------------------------
(* C8 *)

\* C8: with include, exclude and explicit all absent, the call returns a
\* Table whose columns() is exactly the registry's default list.
C8_Defaults ==
    (Called /\ ~include_columns.some /\ ~exclude_columns.some /\ ~columns.some)
        => (IsOk /\ Cols = Defaults)

\* the block registry's defaults, which are not in registry order
C8_Witness ==
    /\ Called /\ IsOk
    /\ datatype = "Blocks"
    /\ ~include_columns.some /\ ~exclude_columns.some /\ ~columns.some
    /\ binary_column_format = "Hex"
    /\ Cols = <<"number", "hash">>

----------------------------------------------------------------------------
(* C9 *)

OtherFormat == IF binary_column_format = "Hex" THEN "Binary" ELSE "Hex"

\* C9: column_type of every column of a returned Table is Hex when the
\* native type is Binary and the preference is Hex, and the native type in
\* every other case; the preference changes neither the selected columns
\* nor their order.
C9_HexSubstitution ==
    (Called /\ IsOk)
        => /\ \A n \in Range(Cols) :
                 column_type(result, n) =
                    IF NativeType(n) = "Binary" /\ binary_column_format = "Hex"
                    THEN "Hex"
                    ELSE NativeType(n)
           /\ Cols = TableColumns(table_schema(datatype, OtherFormat,
                                               include_columns, exclude_columns,
                                               columns, sort))

\* under Hex a Binary column reports Hex and a UInt32 column stays UInt32
C9_Witness ==
    /\ Called /\ IsOk
    /\ binary_column_format = "Hex"
    /\ datatype = "Blocks"
    /\ Cols = <<"number", "hash">>
    /\ NativeType("hash") = "Binary"
    /\ column_type(result, "hash") = "Hex"
    /\ column_type(result, "number") = "UInt32"

----------------------------------------------------------------------------
(* C10 *)

\* C10 as stated: include = [] gives the outcome of the call with include
\* absent and exclude = [] the outcome of the call with exclude absent, for
\* every registry, also one whose default list names an unknown column.
C10_EmptyIsAbsent ==
    Called =>
        /\ include_columns = Some(<<>>) => result = Outcome(None, exclude_columns)
        /\ exclude_columns = Some(<<>>) => result = Outcome(include_columns, None)

\* C10 amended: exclude = [] gives the outcome of the call with exclude
\* absent for every registry; include = [] gives the outcome of the call with
\* include absent when every default column name is in the registry's
\* column set.
C10_EmptyIsAbsentKnownDefaults ==
    Called =>
        /\ (include_columns = Some(<<>>) /\ Range(Defaults) \subseteq Range(Registry))
              => result = Outcome(None, exclude_columns)
        /\ exclude_columns = Some(<<>>) => result = Outcome(include_columns, None)

\* both lists empty on a registry with known defaults: the defaults come back
C10_Witness ==
    /\ Called /\ IsOk
    /\ datatype = "Blocks"
    /\ ~columns.some
    /\ include_columns = Some(<<>>)
    /\ exclude_columns = Some(<<>>)
    /\ Cols = Defaults
    /\ result = Outcome(None, None)

====
